---- MODULE Spec2Model ----
(***************************************************************************)
(* A model of rusty_calc: the tokenizer (src/src/token.rs), the            *)
(* recursive-descent parser and the per-line evaluation driver             *)
(* (src/src/lib.rs).                                                       *)
(*                                                                         *)
(* Characters are one-character strings and a buffer is a sequence of      *)
(* them.  The cursor `pos` is 0-based as in the source, so the character   *)
(* under the cursor is buffer[pos + 1].                                    *)
(*                                                                         *)
(* An f64 is modelled by a pair <<n, d>>:                                  *)
(*    d > 0, gcd(n, d) = 1, n # 0   the finite non-zero value n / d        *)
(*    <<0, 1>>, <<0, -1>>           +0.0 and -0.0                          *)
(*    <<1, 0>>, <<-1, 0>>           +inf and -inf                          *)
(*    <<0, 0>>                      NaN                                    *)
(* Finite arithmetic is exact: the rounding of IEEE-754 is not modelled    *)
(* (the inputs of the model are small; no claim checked here is about      *)
(* rounding).  The special values follow IEEE-754.                         *)
(***************************************************************************)
EXTENDS Integers, Sequences, FiniteSets, TLC

(***************************************************************************)
(* f64 arithmetic                                                          *)
(***************************************************************************)
Abs(i) == IF i < 0 THEN -i ELSE i

RECURSIVE Gcd(_, _)
Gcd(a, b) == IF b = 0 THEN a ELSE Gcd(b, a % b)

\* the finite value n / d (d # 0); a zero result is +0.0
Norm(n, d) ==
    IF n = 0 THEN <<0, 1>>
    ELSE LET g == Gcd(Abs(n), Abs(d))
             s == IF d < 0 THEN -1 ELSE 1
         IN  <<(s * n) \div g, (s * d) \div g>>

NaN == <<0, 0>>
IsNaN(v) == v = <<0, 0>>
IsInf(v) == v[2] = 0 /\ v[1] # 0
IsZero(v) == v[1] = 0 /\ v[2] # 0
\* the sign bit: TRUE for a negative value, -0.0 and -inf
SignBit(v) == v[1] < 0 \/ (v[1] = 0 /\ v[2] < 0)
Zero(neg) == IF neg THEN <<0, -1>> ELSE <<0, 1>>
Inf(neg) == IF neg THEN <<-1, 0>> ELSE <<1, 0>>

\* unary minus of f64: flips the sign bit
FNeg(v) ==
    IF IsNaN(v) THEN NaN
    ELSE IF IsZero(v) THEN <<0, -v[2]>>
    ELSE <<-v[1], v[2]>>

\* a + b of f64 (round to nearest: x + (-x) is +0.0, -0.0 + -0.0 is -0.0)
FAdd(a, b) ==
    IF IsNaN(a) \/ IsNaN(b) THEN NaN
    ELSE IF IsInf(a) /\ IsInf(b) THEN (IF a = b THEN a ELSE NaN)
    ELSE IF IsInf(a) THEN a
    ELSE IF IsInf(b) THEN b
    ELSE IF IsZero(a) /\ IsZero(b) THEN Zero(SignBit(a) /\ SignBit(b))
    ELSE IF IsZero(a) THEN b
    ELSE IF IsZero(b) THEN a
    ELSE Norm(a[1] * b[2] + b[1] * a[2], a[2] * b[2])

\* a - b of f64
FSub(a, b) == FAdd(a, FNeg(b))

\* a * b of f64
FMul(a, b) ==
    LET neg == SignBit(a) # SignBit(b) IN
    IF IsNaN(a) \/ IsNaN(b) THEN NaN
    ELSE IF (IsInf(a) /\ IsZero(b)) \/ (IsZero(a) /\ IsInf(b)) THEN NaN
    ELSE IF IsInf(a) \/ IsInf(b) THEN Inf(neg)
    ELSE IF IsZero(a) \/ IsZero(b) THEN Zero(neg)
    ELSE Norm(a[1] * b[1], a[2] * b[2])

\* a / b of f64: a division by zero gives an infinity or NaN, not an error
FDiv(a, b) ==
    LET neg == SignBit(a) # SignBit(b) IN
    IF IsNaN(a) \/ IsNaN(b) THEN NaN
    ELSE IF (IsInf(a) /\ IsInf(b)) \/ (IsZero(a) /\ IsZero(b)) THEN NaN
    ELSE IF IsInf(a) \/ IsZero(b) THEN Inf(neg)
    ELSE IF IsInf(b) \/ IsZero(a) THEN Zero(neg)
    ELSE Norm(a[1] * b[2], a[2] * b[1])

(***************************************************************************)
(* Characters                                                              *)
(***************************************************************************)
Digits == {"0", "1", "2", "3", "4", "5", "6", "7", "8", "9"}

DigitVal(c) ==
    CASE c = "0" -> 0 [] c = "1" -> 1 [] c = "2" -> 2 [] c = "3" -> 3
      [] c = "4" -> 4 [] c = "5" -> 5 [] c = "6" -> 6 [] c = "7" -> 7
      [] c = "8" -> 8 [] c = "9" -> 9

\* char::is_whitespace, on the characters of the model
Whitespace == {" ", "\t"}

\* char::is_alphabetic, on the characters of the model
Letters == {"a", "b", "c", "d", "e", "f", "g", "h", "i", "j", "k", "l", "m",
            "n", "o", "p", "q", "r", "s", "t", "u", "v", "w", "x", "y", "z",
            "E"}

SYMBOLS == {"+", "-", "*", "/", "!", "(", ")", "=", ";", "q"}

is_beginning_of_literal(c) == c \in Digits \/ c = "."

\* ctx is the text of the literal read so far
is_part_of_literal(c, ctx) ==
    IF ctx # <<>> /\ ctx[Len(ctx)] \in {"e", "E"}
    THEN c \in Digits \/ c = "-" \/ c = "+"
    ELSE c \in Digits \/ c = "." \/ c = "e" \/ c = "E"

is_valid_symbol(c) == c \in SYMBOLS

(***************************************************************************)
(* str::parse::<f64> on the texts read_number can collect (digits, '.',    *)
(* 'e', 'E' and a sign after an exponent mark):                            *)
(*    Number ::= (Digit+ | Digit+ '.' Digit* | Digit* '.' Digit+) Exp?     *)
(*    Exp    ::= ('e' | 'E') Sign? Digit+                                  *)
(***************************************************************************)
RECURSIVE DigitsVal(_)
DigitsVal(s) ==
    IF s = <<>> THEN 0
    ELSE 10 * DigitsVal(SubSeq(s, 1, Len(s) - 1)) + DigitVal(s[Len(s)])

RECURSIVE Pow10(_)
Pow10(k) == IF k = 0 THEN 1 ELSE 10 * Pow10(k - 1)

\* the index of the first element of s in set S, 0 when there is none
FirstIn(s, S) ==
    IF \E i \in 1..Len(s) : s[i] \in S
    THEN CHOOSE i \in 1..Len(s) : s[i] \in S /\ \A j \in 1..(i - 1) : s[j] \notin S
    ELSE 0

AllDigits(s) == \A i \in 1..Len(s) : s[i] \in Digits

\* s before its element k (all of s when k = 0), and s after it (empty when k = 0)
Before(s, k) == IF k = 0 THEN s ELSE SubSeq(s, 1, k - 1)
After(s, k)  == IF k = 0 THEN <<>> ELSE SubSeq(s, k + 1, Len(s))

\* m * 10^k
Scaled(m, k) == IF k >= 0 THEN Norm(m * Pow10(k), 1) ELSE Norm(m, Pow10(-k))

\* ip, fp: the digits before and after the '.'; hasExp: there is an exponent
\* mark; neg: the exponent has the sign '-'; ed: the digits of the exponent
ParseFields(ip, fp, hasExp, neg, ed) ==
    IF /\ AllDigits(ip) /\ AllDigits(fp) /\ Len(ip) + Len(fp) > 0
       /\ (hasExp => (ed # <<>> /\ AllDigits(ed)))
    THEN [ok |-> TRUE,
          val |-> Scaled(DigitsVal(ip \o fp),
                         (IF neg THEN -DigitsVal(ed) ELSE DigitsVal(ed)) - Len(fp))]
    ELSE [ok |-> FALSE, val |-> NaN]

\* mant: the text before the exponent mark; ex: the text after it
ParseParts(mant, hasExp, ex) ==
    ParseFields(Before(mant, FirstIn(mant, {"."})), After(mant, FirstIn(mant, {"."})),
                hasExp, ex # <<>> /\ ex[1] = "-",
                IF ex # <<>> /\ ex[1] \in {"+", "-"} THEN Tail(ex) ELSE ex)

ParseF64(s) ==
    ParseParts(Before(s, FirstIn(s, {"e", "E"})), FirstIn(s, {"e", "E"}) # 0,
               After(s, FirstIn(s, {"e", "E"})))

(***************************************************************************)
(* Tokens                                                                  *)
(***************************************************************************)
NumberTok(v) == [type |-> "Number", val |-> v]
SymbolTok(c) == [type |-> "Symbol", ch |-> c]
NameTok(n)   == [type |-> "Name", name |-> n]
LetTok       == [type |-> "Let"]
EndStatement == [type |-> "EndStatement"]
QuitTok      == [type |-> "Quit"]
\* Ok(None): the stream has no token
NoTok        == [type |-> "None"]

IsSymbol(tok, c) == tok.type = "Symbol" /\ tok.ch = c

(***************************************************************************)
(* TokenStream: [buffer, pos, put_back].  A result of next and peek is     *)
(* [ok, tok, ts, err]: Ok(Some(tok)), Ok(None) (tok = NoTok) or Err(err),  *)
(* and the stream as the call leaves it.                                   *)
(***************************************************************************)
TokenStream_new(input) == [buffer |-> input, pos |-> 0, put_back |-> <<>>]

TokOk(tok, ts)  == [ok |-> TRUE, tok |-> tok, ts |-> ts, err |-> "none"]
TokErr(err, ts) == [ok |-> FALSE, tok |-> NoTok, ts |-> ts, err |-> err]

\* the stream with its cursor at p
At(ts, p) == [ts EXCEPT !.pos = p]

\* the cursor after the whitespace at and after p
RECURSIVE SkipWhitespace(_, _)
SkipWhitespace(buffer, p) ==
    IF p < Len(buffer) /\ buffer[p + 1] \in Whitespace
    THEN SkipWhitespace(buffer, p + 1)
    ELSE p

\* the cursor after the longest literal text starting at p, ctx being the text so far
RECURSIVE NumberEnd(_, _, _)
NumberEnd(buffer, p, ctx) ==
    IF p < Len(buffer) /\ is_part_of_literal(buffer[p + 1], ctx)
    THEN NumberEnd(buffer, p + 1, Append(ctx, buffer[p + 1]))
    ELSE p

\* parsed: the result of number.parse(); ts: the stream after the literal
NumberParsed(parsed, ts) ==
    IF parsed.ok THEN TokOk(NumberTok(parsed.val), ts) ELSE TokErr("InvalidNumber", ts)

\* e: the cursor after the literal
ReadNumberTo(ts, e) == NumberParsed(ParseF64(SubSeq(ts.buffer, ts.pos + 1, e)), At(ts, e))

read_number(ts) == ReadNumberTo(ts, NumberEnd(ts.buffer, ts.pos, <<>>))

\* the cursor after the run of alphanumeric characters starting at p
RECURSIVE StringEnd(_, _)
StringEnd(buffer, p) ==
    IF p < Len(buffer) /\ buffer[p + 1] \in (Letters \cup Digits)
    THEN StringEnd(buffer, p + 1)
    ELSE p

\* e: the cursor after the identifier
ReadStringTo(ts, e) == [name |-> SubSeq(ts.buffer, ts.pos + 1, e), ts |-> At(ts, e)]

read_string(ts) == ReadStringTo(ts, StringEnd(ts.buffer, ts.pos))

\* the token of a `;` read with the cursor already past it
SemicolonTok(ts) ==
    IF ts.pos < Len(ts.buffer) - 1 THEN TokOk(EndStatement, ts) ELSE TokOk(NoTok, ts)

\* the token of the reserved character c, the cursor already past it
SymbolRead(c, ts) ==
    IF c = ";" THEN SemicolonTok(ts)
    ELSE IF c = "q" THEN TokOk(QuitTok, ts)
    ELSE TokOk(SymbolTok(c), ts)

\* r: the result of read_string
WordRead(r) ==
    IF r.name = <<"l", "e", "t">> THEN TokOk(LetTok, r.ts) ELSE TokOk(NameTok(r.name), r.ts)

\* a dispatch that tries the identifier before the reserved characters
CharReadNameFirst(ts, p, c) ==
    IF is_beginning_of_literal(c) THEN read_number(At(ts, p))
    ELSE IF c \in Letters THEN WordRead(read_string(At(ts, p)))
    ELSE IF is_valid_symbol(c) THEN SymbolRead(c, At(ts, p + 1))
    ELSE TokErr("InvalidSymbol", At(ts, p + 1))

\* a dispatch that steps back once more than it has read before a literal
CharReadRewindsTwice(ts, p, c) ==
    IF is_beginning_of_literal(c) THEN read_number(At(ts, IF p > 0 THEN p - 1 ELSE p))
    ELSE IF is_valid_symbol(c) THEN SymbolRead(c, At(ts, p + 1))
    ELSE IF c \in Letters THEN WordRead(read_string(At(ts, p)))
    ELSE TokErr("InvalidSymbol", At(ts, p + 1))

\* c: the character read at p; the literal and the identifier are read again from p
CharRead(ts, p, c) ==
    IF is_beginning_of_literal(c) THEN read_number(At(ts, p))
    ELSE IF is_valid_symbol(c) THEN SymbolRead(c, At(ts, p + 1))
    ELSE IF c \in Letters THEN WordRead(read_string(At(ts, p)))
    ELSE TokErr("InvalidSymbol", At(ts, p + 1))

\* p: the cursor after the whitespace
NextAt(ts, p) ==
    IF p >= Len(ts.buffer) THEN TokOk(NoTok, At(ts, p))
    ELSE CharRead(ts, p, ts.buffer[p + 1])

\* a pop that takes the oldest token of the stack
PoppedOldest(ts) ==
    TokOk(ts.put_back[1], [ts EXCEPT !.put_back = Tail(ts.put_back)])

\* the token on top of the injection stack
Popped(ts) ==
    TokOk(ts.put_back[Len(ts.put_back)],
          [ts EXCEPT !.put_back = SubSeq(ts.put_back, 1, Len(ts.put_back) - 1)])

\* a next that does not skip the whitespace
NextSkipsNothing(ts) ==
    IF ts.put_back # <<>> THEN Popped(ts) ELSE NextAt(ts, ts.pos)

next(ts) ==
    IF ts.put_back # <<>> THEN Popped(ts)
    ELSE NextAt(ts, SkipWhitespace(ts.buffer, ts.pos))

put_back(ts, token) == [ts EXCEPT !.put_back = Append(ts.put_back, token)]

\* r: the result of next
Peeked(r) ==
    IF r.ok /\ r.tok.type # "None" THEN [r EXCEPT !.ts = put_back(r.ts, r.tok)] ELSE r

peek(ts) == Peeked(next(ts))

\* the cursor moved to the next `;` at or after p, or to the end of the buffer
RECURSIVE DiscardEnd(_, _)
DiscardEnd(buffer, p) ==
    IF p = Len(buffer) \/ buffer[p + 1] = ";" THEN p
    ELSE DiscardEnd(buffer, p + 1)

\* a discard that also empties the injection stack
discard_invalid_and_stack(ts) ==
    [ts EXCEPT !.pos = DiscardEnd(ts.buffer, ts.pos), !.put_back = <<>>]

discard_invalid(ts) == At(ts, DiscardEnd(ts.buffer, ts.pos))

(***************************************************************************)
(* VarTable: a sequence of [label, value] in insertion order               *)
(***************************************************************************)
contains(vars, label) == \E i \in 1..Len(vars) : vars[i].label = label

\* Some(value) as <<value>>, None as <<>>
retrieve(vars, label) ==
    IF contains(vars, label)
    THEN <<vars[CHOOSE i \in 1..Len(vars) :
                   vars[i].label = label /\ \A j \in 1..(i - 1) : vars[j].label # label].value>>
    ELSE <<>>

\* a store that appends whether or not the label is there
StoreAppends(vars, label, value) == Append(vars, [label |-> label, value |-> value])

store(vars, label, value) ==
    IF contains(vars, label)
    THEN LET k == CHOOSE i \in 1..Len(vars) :
                      vars[i].label = label /\ \A j \in 1..(i - 1) : vars[j].label # label
         IN  [vars EXCEPT ![k].value = value]
    ELSE Append(vars, [label |-> label, value |-> value])

(***************************************************************************)
(* The parser.  A result is [ok, val, ts, err]: Ok(val) or Err(err), and   *)
(* the stream as the call leaves it.  Each function of the source is an    *)
(* operator of the same name; the value of an intermediate call is handed  *)
(* on as a parameter to the operator that models the rest of the function. *)
(***************************************************************************)
ValOk(v, ts)    == [ok |-> TRUE, val |-> v, ts |-> ts, err |-> "none"]
ValErr(err, ts) == [ok |-> FALSE, val |-> NaN, ts |-> ts, err |-> err]

\* a fold that adds whatever the operator is
ExprFoldAdds(op, value, operand) == FAdd(value, operand)

\* value += term / value -= term
ExprFold(op, value, operand) ==
    IF op = "+" THEN FAdd(value, operand) ELSE FSub(value, operand)

\* value *= primary / value /= primary
TermFold(op, value, operand) ==
    IF op = "*" THEN FMul(value, operand) ELSE FDiv(value, operand)

\* -primary
UnaryMinus(v) == FNeg(v)

\* the operators the loop of expression folds
IsExprOp(tok) == IsSymbol(tok, "+") \/ IsSymbol(tok, "-")

\* the operators the loop of term folds
IsTermOp(tok) == IsSymbol(tok, "*") \/ IsSymbol(tok, "/")

RECURSIVE expression(_, _), expression_loop(_, _, _), expression_peeked(_, _, _),
          expression_operand(_, _, _, _), expression_first(_, _),
          term(_, _), term_loop(_, _, _), term_peeked(_, _, _),
          term_operand(_, _, _, _), term_first(_, _),
          primary(_, _), primary_of(_, _), primary_paren(_), primary_close(_, _),
          primary_neg(_), primary_name(_, _)

expression(ts, vars) == expression_first(term(ts, vars), vars)

\* t: the result of the first term
expression_first(t, vars) ==
    IF t.ok THEN expression_loop(t.val, t.ts, vars) ELSE t

expression_loop(value, ts, vars) == expression_peeked(value, peek(ts), vars)

\* p: the result of ts.peek() at the head of the loop
expression_peeked(value, p, vars) ==
    IF ~p.ok THEN ValErr(p.err, p.ts)
    ELSE IF IsExprOp(p.tok)
    THEN expression_operand(value, p.tok.ch, term(next(p.ts).ts, vars), vars)
    ELSE ValOk(value, p.ts)

\* t: the result of the term after the operator op
expression_operand(value, op, t, vars) ==
    IF t.ok THEN expression_loop(ExprFold(op, value, t.val), t.ts, vars) ELSE t

term(ts, vars) == term_first(primary(ts, vars), vars)

\* f: the result of the first primary
term_first(f, vars) ==
    IF f.ok THEN term_loop(f.val, f.ts, vars) ELSE f

term_loop(value, ts, vars) == term_peeked(value, peek(ts), vars)

\* p: the result of ts.peek() at the head of the loop
term_peeked(value, p, vars) ==
    IF ~p.ok THEN ValErr(p.err, p.ts)
    ELSE IF IsTermOp(p.tok)
    THEN term_operand(value, p.tok.ch, primary(next(p.ts).ts, vars), vars)
    ELSE ValOk(value, p.ts)

\* f: the result of the primary after the operator op
term_operand(value, op, f, vars) ==
    IF f.ok THEN term_loop(TermFold(op, value, f.val), f.ts, vars) ELSE f

primary(ts, vars) == primary_of(next(ts), vars)

\* r: the result of ts.next()
primary_of(r, vars) ==
    IF ~r.ok THEN ValErr(r.err, r.ts)
    ELSE IF r.tok.type = "Number" THEN ValOk(r.tok.val, r.ts)
    ELSE IF IsSymbol(r.tok, "(") THEN primary_paren(expression(r.ts, vars))
    ELSE IF IsSymbol(r.tok, "-") THEN primary_neg(primary(r.ts, vars))
    ELSE IF IsSymbol(r.tok, "+") THEN primary(r.ts, vars)
    ELSE IF r.tok.type = "Name" THEN primary_name(retrieve(vars, r.tok.name), r.ts)
    ELSE ValErr("ExpectedPrimary", r.ts)

\* e: the result of the expression after `(`
primary_paren(e) == IF e.ok THEN primary_close(e.val, next(e.ts)) ELSE e

\* c: the result of ts.next() after the parenthesised expression
primary_close(value, c) ==
    IF ~c.ok THEN ValErr(c.err, c.ts)
    ELSE IF IsSymbol(c.tok, ")") THEN ValOk(value, c.ts)
    ELSE ValErr("ExpectedClosingParen", c.ts)

\* f: the result of the primary after a unary `-`
primary_neg(f) == IF f.ok THEN ValOk(UnaryMinus(f.val), f.ts) ELSE f

\* v: the result of variables.retrieve(name)
primary_name(v, ts) ==
    IF v # <<>> THEN ValOk(v[1], ts) ELSE ValErr("UndefinedVariable", ts)

(***************************************************************************)
(* statement: a result is [ok, val, ts, vars, err]                         *)
(***************************************************************************)
StmtOk(v, ts, vars)    == [ok |-> TRUE, val |-> v, ts |-> ts, vars |-> vars, err |-> "none"]
StmtErr(err, ts, vars) == [ok |-> FALSE, val |-> NaN, ts |-> ts, vars |-> vars, err |-> err]

\* an assignment that stores before the right-hand expression is checked
AssignedBeforeChecked(label, e, vars) ==
    IF e.ok THEN StmtOk(e.val, e.ts, store(vars, label, e.val))
    ELSE StmtErr(e.err, e.ts, store(vars, label, e.val))

\* e: the result of the right-hand expression of `let label =` or `label =`;
\* the value is stored only when the expression returned Ok
Assigned(label, e, vars) ==
    IF e.ok THEN StmtOk(e.val, e.ts, store(vars, label, e.val))
    ELSE StmtErr(e.err, e.ts, vars)

\* e: the result of an expression that is the whole statement
Expressed(e, vars) ==
    IF e.ok THEN StmtOk(e.val, e.ts, vars) ELSE StmtErr(e.err, e.ts, vars)

\* the token after `let NAME` is refused when it is a token other than `=`
LetAssignRefused(tok) == tok.type # "None" /\ ~IsSymbol(tok, "=")

\* a: the result of ts.next() after `let label`
statement_let_assign(label, a, vars) ==
    IF ~a.ok THEN StmtErr(a.err, a.ts, vars)
    ELSE IF LetAssignRefused(a.tok) THEN StmtErr("ExpectedAssign", a.ts, vars)
    ELSE Assigned(label, expression(a.ts, vars), vars)

\* the check of `let label` against the table
LetRefused(label, vars) == contains(vars, label)

\* n: the result of ts.next() after `let`
statement_let_name(n, vars) ==
    IF ~n.ok THEN StmtErr(n.err, n.ts, vars)
    ELSE IF n.tok.type # "Name" THEN StmtErr("NameExpectedAfterLet", n.ts, vars)
    ELSE IF LetRefused(n.tok.name, vars) THEN StmtErr("AlreadyDefined", n.ts, vars)
    ELSE statement_let_assign(n.tok.name, next(n.ts), vars)

\* `let` has been peeked
statement_let(ts, vars) == statement_let_name(next(next(ts).ts), vars)

\* a check that lets every assignment through
AssignNeverRefused(label, vars) == FALSE

\* the check of `label =` against the table
AssignRefused(label, vars) == ~contains(vars, label)

\* ts: the stream after `label =`
statement_assign(label, ts, vars) ==
    IF AssignRefused(label, vars) THEN StmtErr("AssignToUndefined", ts, vars)
    ELSE Assigned(label, expression(ts, vars), vars)

\* a reference that does not put the value into the stream
statement_reference_uninjected(v, ts, vars) ==
    IF v = <<>> THEN StmtErr("UndefinedVariable", ts, vars)
    ELSE Expressed(expression(ts, vars), vars)

\* v: the result of variables.retrieve(label); the value takes the place of the label
statement_reference(v, ts, vars) ==
    IF v = <<>> THEN StmtErr("UndefinedVariable", ts, vars)
    ELSE Expressed(expression(put_back(ts, NumberTok(v[1])), vars), vars)

\* p: the result of ts.peek() after the name
statement_name_peeked(label, p, vars) ==
    IF ~p.ok THEN StmtErr(p.err, p.ts, vars)
    ELSE IF IsSymbol(p.tok, "=") THEN statement_assign(label, next(p.ts).ts, vars)
    ELSE statement_reference(retrieve(vars, label), p.ts, vars)

\* a name has been peeked
statement_name(label, ts, vars) == statement_name_peeked(label, peek(next(ts).ts), vars)

\* p: the result of ts.peek()
statement_peeked(p, vars) ==
    IF ~p.ok THEN StmtErr(p.err, p.ts, vars)
    ELSE IF p.tok.type = "Let" THEN statement_let(p.ts, vars)
    ELSE IF p.tok.type = "Name" THEN statement_name(p.tok.name, p.ts, vars)
    ELSE Expressed(expression(p.ts, vars), vars)

statement(ts, vars) == statement_peeked(peek(ts), vars)

(***************************************************************************)
(* evaluate: the loop over one line.  A loop state is                      *)
(* [ts, val, res, variables, done].                                        *)
(***************************************************************************)
NumberResult(v) == [kind |-> "Number", val |-> v, err |-> "none"]
ErrorResult(e)  == [kind |-> "Error", val |-> NaN, err |-> e]
QuitResult      == [kind |-> "Quit", val |-> NaN, err |-> "none"]

\* the pending value flushed into the results: val is <<v>> or <<>>
Flush(res, val) == IF val # <<>> THEN Append(res, NumberResult(val[1])) ELSE res

evaluate_entry(line, vars) ==
    [ts |-> TokenStream_new(line), val |-> <<>>, res |-> <<>>, variables |-> vars,
     done |-> FALSE]

\* p: the result of ts.peek() at the head of the loop
ArmOf(p) ==
    IF ~p.ok THEN "ReadError"
    ELSE IF p.tok.type \in {"EndStatement", "Quit", "None"} THEN p.tok.type
    ELSE "Statement"

\* which arm of the match the next iteration takes
Arm(st) == ArmOf(peek(st.ts))

\* peek failed: an Error, discard_invalid, and the Noop arm, which does nothing
\* (peek itself never returns Noop: only this recovery makes one)
ReadFailed(st, p) ==
    [st EXCEPT !.res = Append(st.res, ErrorResult(p.err)),
               !.ts = discard_invalid(p.ts)]

ArmReadError(st) == ReadFailed(st, peek(st.ts))

\* an EndStatement arm that leaves the `;` token in the stream
ArmEndStatementKeepsToken(st) ==
    [st EXCEPT !.ts = peek(st.ts).ts,
               !.res = Flush(st.res, st.val),
               !.val = <<>>]

ArmEndStatement(st) ==
    [st EXCEPT !.ts = next(peek(st.ts).ts).ts,
               !.res = Flush(st.res, st.val),
               !.val = <<>>]

\* a Quit arm that forgets the outcomes before it
ArmQuitAlone(st) ==
    [st EXCEPT !.res = <<QuitResult>>,
               !.ts = next(peek(st.ts).ts).ts]

ArmQuit(st) ==
    [st EXCEPT !.res = Append(st.res, QuitResult),
               !.ts = next(peek(st.ts).ts).ts]

\* a success that does not hand the table of statement on
StatementOkTableKept(st, r) ==
    [st EXCEPT !.ts = r.ts, !.res = Append(st.res, NumberResult(r.val))]

\* statement returned Ok(result)
StatementOk(st, r) ==
    [st EXCEPT !.ts = r.ts, !.variables = r.vars,
               !.res = Append(st.res, NumberResult(r.val))]

\* statement returned Err
StatementErr(st, r) ==
    [st EXCEPT !.ts = discard_invalid(r.ts), !.variables = r.vars,
               !.res = Append(st.res, ErrorResult(r.err))]

\* r: the result of statement
StatementDone(st, r) == IF r.ok THEN StatementOk(st, r) ELSE StatementErr(st, r)

ArmStatement(st) == StatementDone(st, statement(peek(st.ts).ts, st.variables))

ArmNone(st) ==
    [st EXCEPT !.ts = peek(st.ts).ts, !.res = Flush(st.res, st.val), !.done = TRUE]

\* the iteration that takes arm a
IterateArm(a, st) ==
    CASE a = "ReadError"    -> ArmReadError(st)
      [] a = "EndStatement" -> ArmEndStatement(st)
      [] a = "Quit"         -> ArmQuit(st)
      [] a = "Statement"    -> ArmStatement(st)
      [] a = "None"         -> ArmNone(st)

\* one iteration of the loop
Iterate(st) == IterateArm(Arm(st), st)

RECURSIVE Loop(_)
Loop(st) == IF st.done THEN st ELSE Loop(Iterate(st))

\* evaluate(expression, variables): the results and the table it leaves
evaluate(line, vars) == Loop(evaluate_entry(line, vars))

(***************************************************************************)
(* The lines handed to evaluate: up to MaxStmts statement texts of         *)
(* StmtPool joined by the separators of SepPool.  The pool holds           *)
(* well-formed statements of every form of the grammar and one failing     *)
(* statement per kind of error; the empty text makes leading, trailing     *)
(* and repeated `;`.                                                       *)
(***************************************************************************)
MaxStmts == 2
MaxLines == 2

S_empty    == <<>>
S_lit      == <<"1">>
S_ref      == <<"x">>
S_use      == <<"x", "+", "2">>
S_let      == <<"l", "e", "t", " ", "x", "=", "1">>
S_relet    == <<"l", "e", "t", " ", "x", "=", "3">>
S_assign   == <<"x", "=", "2">>
S_lety     == <<"l", "e", "t", " ", "y", "=", "x">>
S_arith    == <<"2", "-", "3", "/", "2">>
S_paren    == <<"(", "1", "+", "2">>
S_syntax   == <<"1", "+", "*", "2">>
S_symbol   == <<"#">>
S_number   == <<"1", ".", "2", ".", "3">>
S_quit     == <<"q">>
S_noassign == <<"l", "e", "t", " ", "x", " ", "1">>
S_sign     == <<"-">>
S_letonly  == <<"l", "e", "t", " ", "x">>

StmtPool == {S_empty, S_lit, S_ref, S_use, S_let, S_relet, S_assign, S_lety,
             S_arith, S_paren, S_syntax, S_symbol, S_number, S_quit, S_noassign, S_sign,
             S_letonly}

SepPool == {<<";">>, <<";", " ">>, <<";", ";">>, <<" ">>}

RECURSIVE LinesOf(_)
LinesOf(k) ==
    IF k = 1 THEN StmtPool
    ELSE {l \o sep \o stmt : l \in LinesOf(k - 1), sep \in SepPool, stmt \in StmtPool}

Lines == UNION {LinesOf(k) : k \in 1..MaxStmts}

(***************************************************************************)
(* The state: the locals of evaluate (ts, val, res), the table of the      *)
(* session (variables), should_quit of calculate, and where control is     *)
(* (pc: "prompt" between two lines, "eval" inside the loop of evaluate).   *)
(* History variables, read by the properties only:                         *)
(*    nlines  the number of lines handed to evaluate so far                *)
(*    entry   the table as the current call of evaluate received it        *)
(*    step    the arm the last iteration took and the loop state before it *)
(*    last    per label, the value of the last `let` or assignment to it   *)
(*            that yielded a Number                                        *)
(***************************************************************************)
VARIABLES ts, val, res, variables, should_quit, pc, nlines, entry, step, last

vars == <<ts, val, res, variables, should_quit, pc, nlines, entry, step, last>>

\* the loop state of evaluate held in the variables
Cur == [ts |-> ts, val |-> val, res |-> res, variables |-> variables, done |-> pc # "eval"]

\* the form of the statement at the head of stream s (the token evaluate peeked
\* is on its stack), from its first three tokens t1, t2, t3: <<"let", label>>,
\* <<"assign", label>>, <<"ref", label>> or <<"other", <<>>>>
HeadOf(t1, t2, t3) ==
        IF t1.tok.type = "Let" /\ t2.tok.type = "Name" /\ IsSymbol(t3.tok, "=")
        THEN <<"let", t2.tok.name>>
        ELSE IF t1.tok.type = "Name" /\ IsSymbol(t2.tok, "=")
        THEN <<"assign", t1.tok.name>>
        ELSE IF t1.tok.type = "Name" THEN <<"ref", t1.tok.name>>
        ELSE <<"other", <<>>>>

HeadAfter(t1, t2) == HeadOf(t1, t2, next(t2.ts))

HeadFrom(t1) == HeadAfter(t1, next(t1.ts))

StmtHead(s) == HeadFrom(next(s))

\* last, after an iteration from loop state st to loop state st2
Recorded(a, h, out) ==
    IF a = "Statement" /\ h[1] \in {"let", "assign"} /\ out # <<>>
       /\ out[Len(out)].kind = "Number"
    THEN [n \in DOMAIN last \cup {h[2]} |-> IF n = h[2] THEN out[Len(out)].val ELSE last[n]]
    ELSE last

Record(st, st2) == Recorded(Arm(st), StmtHead(peek(st.ts).ts), st2.res)

Init ==
    /\ ts = TokenStream_new(<<>>)
    /\ val = <<>>
    /\ res = <<>>
    /\ variables = <<>>
    /\ should_quit = FALSE
    /\ pc = "prompt"
    /\ nlines = 0
    /\ entry = <<>>
    /\ step = [arm |-> "Init", pre |-> evaluate_entry(<<>>, <<>>)]
    /\ last = <<>>

\* the variables after an iteration of the loop that leads to loop state st2
Becomes(arm, st2) ==
    /\ ts' = st2.ts
    /\ val' = st2.val
    /\ res' = st2.res
    /\ variables' = st2.variables
    /\ step' = [arm |-> arm, pre |-> Cur]
    /\ last' = Record(Cur, st2)

\* evaluate is called on a line with the table of the session
Call ==
    /\ pc = "prompt" /\ ~should_quit /\ nlines < MaxLines
    /\ \E line \in Lines :
          LET st == evaluate_entry(line, variables)
          IN  /\ ts' = st.ts /\ val' = st.val /\ res' = st.res
              /\ step' = [arm |-> "Call", pre |-> st]
    /\ pc' = "eval"
    /\ nlines' = nlines + 1
    /\ entry' = variables
    /\ UNCHANGED <<variables, should_quit, last>>

EvalReadError ==
    /\ pc = "eval" /\ Arm(Cur) = "ReadError"
    /\ Becomes("ReadError", ArmReadError(Cur))
    /\ UNCHANGED <<should_quit, pc, nlines, entry>>

EvalEndStatement ==
    /\ pc = "eval" /\ Arm(Cur) = "EndStatement"
    /\ Becomes("EndStatement", ArmEndStatement(Cur))
    /\ UNCHANGED <<should_quit, pc, nlines, entry>>

EvalQuit ==
    /\ pc = "eval" /\ Arm(Cur) = "Quit"
    /\ Becomes("Quit", ArmQuit(Cur))
    /\ UNCHANGED <<should_quit, pc, nlines, entry>>

EvalStatement ==
    /\ pc = "eval" /\ Arm(Cur) = "Statement"
    /\ Becomes("Statement", ArmStatement(Cur))
    /\ UNCHANGED <<should_quit, pc, nlines, entry>>

\* calculate: a Quit among the results of the line ends the session
HasQuit(out) == \E i \in 1..Len(out) : out[i].kind = "Quit"

\* the stream has no token: evaluate returns; calculate reads the results
EvalReturn ==
    /\ pc = "eval" /\ Arm(Cur) = "None"
    /\ Becomes("None", ArmNone(Cur))
    /\ pc' = "prompt"
    /\ should_quit' = HasQuit(res')
    /\ UNCHANGED <<nlines, entry>>

Next ==
    \/ Call
    \/ EvalReadError
    \/ EvalEndStatement
    \/ EvalQuit
    \/ EvalStatement
    \/ EvalReturn

Spec == Init /\ [][Next]_vars

(***************************************************************************)
(* Expressions: every well-formed expression of up to MaxExprLen           *)
(* characters over the literals of ExprDigits, the binary and unary        *)
(* operators and parentheses, built by the grammar of the specification.   *)
(* Grammar[n] holds the primaries, terms and expressions of exactly n      *)
(* characters.                                                             *)
(***************************************************************************)
MaxExprLen == 7

ExprDigits == {"2", "3"}

Grammar[n \in 0..(MaxExprLen + 1)] ==
    IF n = 0 THEN [P |-> {}, T |-> {}, E |-> {}]
    ELSE
      LET P == (IF n = 1 THEN {<<d>> : d \in ExprDigits} ELSE {})
               \cup {<<u>> \o q : u \in {"-", "+"}, q \in Grammar[n - 1].P}
               \cup (IF n >= 3 THEN {<<"(">> \o e \o <<")">> : e \in Grammar[n - 2].E}
                     ELSE {})
          T == P \cup UNION {{t \o <<o>> \o q : t \in Grammar[k].T, o \in {"*", "/"},
                                                  q \in Grammar[n - k - 1].P}
                             : k \in 1..(n - 2)}
          E == T \cup UNION {{e \o <<o>> \o t : e \in Grammar[k].E, o \in {"+", "-"},
                                                  t \in Grammar[n - k - 1].T}
                             : k \in 1..(n - 2)}
      IN  [P |-> P, T |-> T, E |-> E]

Expressions == UNION {Grammar[n].E : n \in 1..MaxExprLen}

\* evaluate is called once, on an expression and an empty table
InitExpr ==
    /\ \E line \in Expressions :
          /\ ts = TokenStream_new(line)
          /\ step = [arm |-> "Call", pre |-> evaluate_entry(line, <<>>)]
    /\ val = <<>>
    /\ res = <<>>
    /\ variables = <<>>
    /\ should_quit = FALSE
    /\ pc = "eval"
    /\ nlines = 1
    /\ entry = <<>>
    /\ last = <<>>

\* the arms a line that is one well-formed expression takes
NextExpr ==
    \/ EvalStatement
    \/ EvalReturn

SpecExpr == InitExpr /\ [][NextExpr]_vars

(***************************************************************************)
(* The reference evaluation of a token sequence: split at the last binary  *)
(* `+` or `-` outside parentheses, else at the last binary `*` or `/`      *)
(* outside parentheses, else a primary: a literal, a name of env, a        *)
(* parenthesised expression, a sign applied to a primary.  The result is   *)
(* <<v>>, or <<>> when the tokens are no expression.                       *)
(***************************************************************************)
\* the tokens of stream s up to the end of the statement (a `;` or the end of
\* the line); text that is no token gives the token Unreadable, which no
\* expression contains
Unreadable == [type |-> "Unreadable"]

RECURSIVE TokensFrom(_)
TokensFrom(s) ==
    LET r == next(s)
    IN  IF ~r.ok THEN <<Unreadable>>
        ELSE IF r.tok.type \in {"None", "EndStatement"} THEN <<>>
        ELSE <<r.tok>> \o TokensFrom(r.ts)

TokensOf(line) == TokensFrom(TokenStream_new(line))

\* the number of `(` minus the number of `)` before token i
RECURSIVE DepthAt(_, _)
DepthAt(toks, i) ==
    IF i <= 1 THEN 0
    ELSE DepthAt(toks, i - 1)
         + (IF IsSymbol(toks[i - 1], "(") THEN 1
            ELSE IF IsSymbol(toks[i - 1], ")") THEN -1 ELSE 0)

EndsOperand(tok) == tok.type \in {"Number", "Name"} \/ IsSymbol(tok, ")")

BinaryAt(toks, i, ops) ==
    /\ toks[i].type = "Symbol" /\ toks[i].ch \in ops
    /\ i > 1 /\ EndsOperand(toks[i - 1])
    /\ DepthAt(toks, i) = 0

LastBinary(toks, ops) ==
    IF \E i \in 1..Len(toks) : BinaryAt(toks, i, ops)
    THEN CHOOSE i \in 1..Len(toks) :
             BinaryAt(toks, i, ops) /\ \A j \in (i + 1)..Len(toks) : ~BinaryAt(toks, j, ops)
    ELSE 0

RefApply(op, a, b) ==
    IF a = <<>> \/ b = <<>> THEN <<>>
    ELSE IF op = "+" THEN <<FAdd(a[1], b[1])>>
    ELSE IF op = "-" THEN <<FSub(a[1], b[1])>>
    ELSE IF op = "*" THEN <<FMul(a[1], b[1])>>
    ELSE <<FDiv(a[1], b[1])>>

RECURSIVE RefExpr(_, _), RefTerm(_, _), RefPrimary(_, _)
RefExpr(toks, env) ==
    LET i == LastBinary(toks, {"+", "-"})
    IN  IF i > 0
        THEN RefApply(toks[i].ch, RefExpr(SubSeq(toks, 1, i - 1), env),
                      RefTerm(SubSeq(toks, i + 1, Len(toks)), env))
        ELSE RefTerm(toks, env)

RefTerm(toks, env) ==
    LET i == LastBinary(toks, {"*", "/"})
    IN  IF i > 0
        THEN RefApply(toks[i].ch, RefTerm(SubSeq(toks, 1, i - 1), env),
                      RefPrimary(SubSeq(toks, i + 1, Len(toks)), env))
        ELSE RefPrimary(toks, env)

RefPrimary(toks, env) ==
    IF toks = <<>> THEN <<>>
    ELSE IF Len(toks) = 1 THEN
        IF toks[1].type = "Number" THEN <<toks[1].val>>
        ELSE IF toks[1].type = "Name" /\ toks[1].name \in DOMAIN env THEN <<env[toks[1].name]>>
        ELSE <<>>
    ELSE IF IsSymbol(toks[1], "-") THEN
        LET v == RefPrimary(Tail(toks), env)
        IN  IF v = <<>> THEN <<>> ELSE <<FNeg(v[1])>>
    ELSE IF IsSymbol(toks[1], "+") THEN RefPrimary(Tail(toks), env)
    ELSE IF IsSymbol(toks[1], "(") /\ IsSymbol(toks[Len(toks)], ")")
    THEN RefExpr(SubSeq(toks, 2, Len(toks) - 1), env)
    ELSE <<>>

\* evaluate has returned
Returned == pc = "prompt" /\ nlines > 0

\* C9: a line that is one expression over literals, the four operators, unary
\* signs and parentheses yields exactly one outcome, the Number of its reference
\* evaluation (`*` and `/` before `+` and `-`, left to right, parentheses first,
\* a sign applied to the next primary only).
C9_ExpressionValue ==
    (Returned /\ RefExpr(TokensOf(ts.buffer), <<>>) # <<>>)
        => res = <<NumberResult(RefExpr(TokensOf(ts.buffer), <<>>)[1])>>

(***************************************************************************)
(* Lines as sequences of statements                                        *)
(***************************************************************************)
\* the texts between the `;` of a line
RECURSIVE Segments(_)
Segments(line) ==
    IF FirstIn(line, {";"}) = 0 THEN <<line>>
    ELSE <<Before(line, FirstIn(line, {";"}))>> \o Segments(After(line, FirstIn(line, {";"})))

\* segments i..j joined by `;`
RECURSIVE Joined(_, _, _)
Joined(segs, i, j) ==
    IF i > j THEN <<>>
    ELSE IF i = j THEN segs[i]
    ELSE segs[i] \o <<";">> \o Joined(segs, i + 1, j)

Blank(text) == \A i \in 1..Len(text) : text[i] \in Whitespace

HasError(out) == \E i \in 1..Len(out) : out[i].kind = "Error"

IsSuffix(a, b) == Len(a) <= Len(b) /\ SubSeq(b, Len(b) - Len(a) + 1, Len(b)) = a

\* C1: when statement i of a line fails, the statements after it yield what they
\* yield on a line without it: the outcomes of the rest of the line, evaluated on
\* the table the statements up to i leave, end the outcomes of the line.
C1_LaterStatementsUnaffected ==
    Returned =>
        \A i \in 1..(Len(Segments(ts.buffer)) - 1) :
            LET segs   == Segments(ts.buffer)
                before == evaluate(Joined(segs, 1, i - 1), entry)
                failed == evaluate(segs[i], before.variables)
                later  == evaluate(Joined(segs, i + 1, Len(segs)), failed.variables)
            IN  HasError(failed.res) =>
                    /\ IsSuffix(later.res, res)
                    /\ variables = later.variables

TableEnv(table) ==
    [n \in {table[i].label : i \in 1..Len(table)} |-> retrieve(table, n)[1]]

\* env with label n bound to v
Bound(env, n, v) == [m \in DOMAIN env \cup {n} |-> IF m = n THEN v ELSE env[m]]

\* the reference meaning of one statement, given as its tokens: `let` binds a
\* name env lacks, assignment rebinds a name env has, anything else is an
\* expression.  [ok, val, env]; ok is FALSE when the statement is not well-formed.
RefBind(n, v, env) ==
    IF v = <<>> THEN [ok |-> FALSE, val |-> NaN, env |-> env]
    ELSE [ok |-> TRUE, val |-> v[1], env |-> Bound(env, n, v[1])]

RefValue(v, env) ==
    IF v = <<>> THEN [ok |-> FALSE, val |-> NaN, env |-> env]
    ELSE [ok |-> TRUE, val |-> v[1], env |-> env]

RefStatement(toks, env) ==
    IF toks = <<>> THEN RefValue(<<>>, env)
    ELSE IF toks[1].type = "Let" THEN
        IF Len(toks) >= 4 /\ toks[2].type = "Name" /\ toks[2].name \notin DOMAIN env
           /\ IsSymbol(toks[3], "=")
        THEN RefBind(toks[2].name, RefExpr(SubSeq(toks, 4, Len(toks)), env), env)
        ELSE RefValue(<<>>, env)
    ELSE IF Len(toks) >= 2 /\ toks[1].type = "Name" /\ IsSymbol(toks[2], "=") THEN
        IF toks[1].name \in DOMAIN env
        THEN RefBind(toks[1].name, RefExpr(SubSeq(toks, 3, Len(toks)), env), env)
        ELSE RefValue(<<>>, env)
    ELSE RefValue(RefExpr(toks, env), env)

\* the reference meaning of the statements segs, in order, the blank ones
\* skipped when skip is TRUE: [ok, res, env]
RECURSIVE RefLine(_, _, _)
RefLine(segs, env, skip) ==
    IF segs = <<>> THEN [ok |-> TRUE, res |-> <<>>, env |-> env]
    ELSE IF skip /\ Blank(segs[1]) THEN RefLine(Tail(segs), env, skip)
    ELSE LET first == RefStatement(TokensOf(segs[1]), env)
             rest  == RefLine(Tail(segs), first.env, skip)
         IN  [ok  |-> first.ok /\ rest.ok,
              res |-> <<NumberResult(first.val)>> \o rest.res,
              env |-> rest.env]

\* C3: a line of n well-formed statements separated by single `;` yields n
\* outcomes, the i-th the Number of the reference meaning of statement i on the
\* table the statements before it leave, and leaves the table they leave.
C3_OneOutcomePerStatement ==
    (Returned /\ RefLine(Segments(ts.buffer), TableEnv(entry), FALSE).ok)
        => /\ res = RefLine(Segments(ts.buffer), TableEnv(entry), FALSE).res
           /\ Len(res) = Len(Segments(ts.buffer))
           /\ TableEnv(variables) = RefLine(Segments(ts.buffer), TableEnv(entry), FALSE).env

\* the case of C3: two statements, the second one character long and right
\* after the `;`, read on the table the first one leaves
C3_Witness ==
    /\ Returned
    /\ ts.buffer = S_let \o <<";">> \o S_ref
    /\ entry = <<>>
    /\ res = <<NumberResult(<<1, 1>>), NumberResult(<<1, 1>>)>>

\* C4: on a line whose statements are well-formed or empty, the outcomes are
\* those of the non-empty statements, in order: empty statements add no outcome
\* and drop none.
C4_EmptyStatementsAddAndDropNothing ==
    (Returned /\ RefLine(Segments(ts.buffer), TableEnv(entry), TRUE).ok)
        => /\ res = RefLine(Segments(ts.buffer), TableEnv(entry), TRUE).res
           /\ TableEnv(variables) = RefLine(Segments(ts.buffer), TableEnv(entry), TRUE).env

(***************************************************************************)
(* The last iteration of the loop, read from the history variable step     *)
(***************************************************************************)
\* the last iteration called statement
StatementStep == pc \in {"eval", "prompt"} /\ step.arm = "Statement"

\* the form of the statement it was called on, and the tokens of that statement
StepHead == StmtHead(peek(step.pre.ts).ts)
StepTokens == TokensFrom(peek(step.pre.ts).ts)

\* the first three tokens of the statement of the last iteration
StepFirst  == next(peek(step.pre.ts).ts)
StepSecond == next(StepFirst.ts)
StepThird  == next(StepSecond.ts)

\* the statement of the last iteration starts with `let NAME`
StepLetName ==
    StepFirst.tok = LetTok /\ StepSecond.ok /\ StepSecond.tok.type = "Name"

\* the right-hand side of the statement, after its first k tokens, evaluated by
\* the reference on the table the iteration started from
StepRhs(k) == RefExpr(SubSeq(StepTokens, k + 1, Len(StepTokens)), TableEnv(step.pre.variables))

\* the iteration added one outcome
AddedOne == Len(res) = Len(step.pre.res) + 1 /\ SubSeq(res, 1, Len(step.pre.res)) = step.pre.res

Outcome == res[Len(res)]

\* C5: `let NAME = EXPR` on a NAME the table lacks yields the value of EXPR and
\* stores it under NAME; a statement that is an expression starting with a
\* reference to NAME yields its value with every name standing for the value
\* most recently stored for it by `let` or assignment.
C5_LetThenReference ==
    StatementStep =>
        /\ (/\ StepHead[1] = "let"
            /\ ~contains(step.pre.variables, StepHead[2])
            /\ StepRhs(3) # <<>>)
           => (/\ AddedOne
               /\ Outcome = NumberResult(StepRhs(3)[1])
               /\ retrieve(variables, StepHead[2]) = StepRhs(3))
        /\ (/\ StepHead[1] = "ref"
            /\ RefExpr(StepTokens, last) # <<>>)
           => (/\ AddedOne
               /\ Outcome = NumberResult(RefExpr(StepTokens, last)[1]))

\* C6: `let NAME = EXPR` on a NAME the table has yields an Error and leaves the
\* table as it was; an assignment `NAME = EXPR` to a NAME the table has yields
\* the value of EXPR and makes it the value of NAME, nothing else changed.
C6_RedefinitionRefusedAssignmentAllowed ==
    StatementStep =>
        /\ (/\ StepHead[1] = "let"
            /\ contains(step.pre.variables, StepHead[2]))
           => (/\ AddedOne
               /\ Outcome.kind = "Error"
               /\ variables = step.pre.variables)
        /\ (/\ StepHead[1] = "assign"
            /\ contains(step.pre.variables, StepHead[2])
            /\ StepRhs(2) # <<>>)
           => (/\ AddedOne
               /\ Outcome = NumberResult(StepRhs(2)[1])
               /\ variables = store(step.pre.variables, StepHead[2], StepRhs(2)[1]))

\* the table differs from old in the value of label n only
ValueChanged(old, new, n) ==
    /\ Len(new) = Len(old)
    /\ \A i \in 1..Len(old) :
          /\ new[i].label = old[i].label
          /\ old[i].label # n => new[i] = old[i]

\* C7: an assignment `NAME = EXPR` to a NAME the table lacks yields an Error and
\* leaves the table as it was; an iteration changes the table only when it is a
\* `let` of a label the table lacks, which appends the label, or an assignment
\* to a label the table has, which changes the value of that label only; the
\* table a call of evaluate starts from is the one the call before it left.
C7_TableMutatedByLetAndAssignmentOnly ==
    /\ (StatementStep /\ StepHead[1] = "assign" /\ ~contains(step.pre.variables, StepHead[2]))
          => (/\ AddedOne
              /\ Outcome.kind = "Error"
              /\ variables = step.pre.variables)
    /\ variables # step.pre.variables
          => /\ StatementStep
             /\ \/ /\ StepLetName
                   /\ ~contains(step.pre.variables, StepSecond.tok.name)
                   /\ Outcome.kind = "Number"
                   /\ variables = Append(step.pre.variables,
                                         [label |-> StepSecond.tok.name,
                                          value |-> Outcome.val])
                \/ /\ StepHead[1] = "assign"
                   /\ contains(step.pre.variables, StepHead[2])
                   /\ Outcome.kind = "Number"
                   /\ ValueChanged(step.pre.variables, variables, StepHead[2])
                   /\ retrieve(variables, StepHead[2]) = <<Outcome.val>>

\* the case of C7: `x=2` on a table without x
C7_Witness ==
    /\ StatementStep
    /\ StepHead = <<"assign", <<"x">>>>
    /\ step.pre.variables = <<>>
    /\ Outcome = ErrorResult("AssignToUndefined")
    /\ variables = <<>>

\* C8: a successful statement's value is pending until a `;` or the end of the
\* line: on a line without `;` whose statements all succeed, only the value of
\* the last statement is emitted.
C8_PendingValueEmittedAtBoundary ==
    (/\ Returned
     /\ FirstIn(ts.buffer, {";"}) = 0
     /\ \A i \in 1..Len(res) : res[i].kind = "Number")
        => Len(res) <= 1

\* the case of C9: a sign and both precedences in one expression
C9_Witness ==
    /\ Returned
    /\ ts.buffer = <<"-", "2", "+", "3", "*", "2">>
    /\ res = <<NumberResult(<<4, 1>>)>>

\* the characters whitespace may be added next to
Separators == {"+", "-", "*", "/", "(", ")", "=", ";"}

\* line with a space added before character k (after the last one when
\* k = Len(line) + 1)
Spaced(line, k) == SubSeq(line, 1, k - 1) \o <<" ">> \o SubSeq(line, k, Len(line))

\* a space before character k of line is next to a separator or at an end
SpaceAllowed(line, k) ==
    \/ k = 1
    \/ k = Len(line) + 1
    \/ line[k] \in Separators
    \/ line[k - 1] \in Separators

\* C10: a space added next to an operator, a parenthesis, `=` or `;`, or at the
\* start or the end of the line, changes neither the outcomes nor the table.
C10_WhitespaceInsensitive ==
    Returned =>
        \A k \in 1..(Len(ts.buffer) + 1) :
            SpaceAllowed(ts.buffer, k) =>
                /\ evaluate(Spaced(ts.buffer, k), entry).res = res
                /\ evaluate(Spaced(ts.buffer, k), entry).variables = variables

\* the text of the line from the cursor on
Rest == SubSeq(ts.buffer, ts.pos + 1, Len(ts.buffer))

MaxBufLen == 3

MaxStack == 2

BufChars == {"1", ".", ";", " ", "x", "q", "#"}

RECURSIVE BuffersOf(_)
BuffersOf(n) ==
    IF n = 0 THEN {<<>>}
    ELSE {<<c>> \o b : c \in BufChars, b \in BuffersOf(n - 1)}

Buffers == UNION {BuffersOf(n) : n \in 0..MaxBufLen}

\* the tokens a caller hands to put_back
PushedTokens == {NumberTok(<<2, 1>>), SymbolTok("=")}

InitStream ==
    /\ \E buf \in Buffers :
          /\ ts = TokenStream_new(buf)
          /\ step = [arm |-> "new", pre |-> evaluate_entry(buf, <<>>)]
    /\ val = <<>>
    /\ res = <<>>
    /\ variables = <<>>
    /\ should_quit = FALSE
    /\ pc = "stream"
    /\ nlines = 0
    /\ entry = <<>>
    /\ last = <<>>

\* the stream and the history after a call that leaves the stream as s2
Called(name, s2) ==
    /\ ts' = s2
    /\ step' = [arm |-> name, pre |-> Cur]

CallNext ==
    /\ pc = "stream"
    /\ Called("next", next(ts).ts)
    /\ UNCHANGED <<val, res, variables, should_quit, pc, nlines, entry, last>>

CallPeek ==
    /\ pc = "stream"
    /\ Called("peek", peek(ts).ts)
    /\ UNCHANGED <<val, res, variables, should_quit, pc, nlines, entry, last>>

CallPutBack ==
    /\ pc = "stream"
    /\ Len(ts.put_back) < MaxStack
    /\ \E tok \in PushedTokens : Called("put_back", put_back(ts, tok))
    /\ UNCHANGED <<val, res, variables, should_quit, pc, nlines, entry, last>>

CallDiscardInvalid ==
    /\ pc = "stream"
    /\ Called("discard_invalid", discard_invalid(ts))
    /\ UNCHANGED <<val, res, variables, should_quit, pc, nlines, entry, last>>

NextStream ==
    \/ CallNext
    \/ CallPeek
    \/ CallPutBack
    \/ CallDiscardInvalid

SpecStream == InitStream /\ [][NextStream]_vars

\* the stream before the last call, and what the call returned
Before_ts == step.pre.ts
NextReturned == next(Before_ts)
PeekReturned == peek(Before_ts)

\* the last call was name
Did(name) == pc = "stream" /\ step.arm = name

\* the cursor of the stream before the last call, its whitespace skipped: the
\* character next reads is the one after it
ReadAt == SkipWhitespace(Before_ts.buffer, Before_ts.pos)

\* C12: next on a `;` returns EndStatement when the `;` is not the last
\* character of the buffer, and no token when it is the last one.
C12_SemicolonEndsStatementUnlessLast ==
    (/\ Did("next")
     /\ Before_ts.put_back = <<>>
     /\ ReadAt < Len(Before_ts.buffer)
     /\ Before_ts.buffer[ReadAt + 1] = ";")
        => /\ NextReturned.ok
           /\ ReadAt + 1 < Len(Before_ts.buffer) => NextReturned.tok = EndStatement
           /\ ReadAt + 1 = Len(Before_ts.buffer) => NextReturned.tok = NoTok

\* what a call returned, without the stream: Ok(Some(tok)), Ok(None) or Err(err)
Answer(r) == [ok |-> r.ok, tok |-> r.tok, err |-> r.err]

\* the answers of the calls of next from stream s on, until the buffer and the
\* stack are used up
RECURSIVE Drain(_)
Drain(s) ==
    LET r == next(s)
    IN  <<Answer(r)>> \o (IF r.ts.pos >= Len(r.ts.buffer) /\ r.ts.put_back = <<>>
                                  /\ r.ok /\ r.tok = NoTok
                          THEN <<>> ELSE Drain(r.ts))

\* C13: peek never consumes: a peek right after a peek returns what the first
\* one returned, a next right after a peek returns it too, and the calls of next
\* after a peek return what they return without the peek.
C13_PeekNeverConsumes ==
    Did("peek") =>
        /\ Answer(peek(ts)) = Answer(PeekReturned)
        /\ Answer(next(ts)) = Answer(PeekReturned)
        /\ Drain(ts) = Drain(Before_ts)

\* C14: in `let NAME ...`, when the token after NAME is a token other than `=`
\* or there is none, the statement yields an Error and the table stays as it was.
C14_LetNeedsAssign ==
    (/\ StatementStep
     /\ StepFirst.tok = LetTok
     /\ StepSecond.ok /\ StepSecond.tok.type = "Name"
     /\ StepThird.ok /\ ~IsSymbol(StepThird.tok, "="))
        => /\ AddedOne
           /\ Outcome.kind = "Error"
           /\ variables = step.pre.variables

\* C15: an empty or all-whitespace line yields no outcome and leaves the table
\* as it was.
C15_BlankLineYieldsNothing ==
    (Returned /\ Blank(ts.buffer)) => (res = <<>> /\ variables = entry)

\* the case of C15: a line of one space, evaluated on a table that is not empty
C15_Witness ==
    /\ Returned
    /\ ts.buffer = <<" ">>
    /\ entry # <<>>
    /\ res = <<>>

\* the labels store is tried with: those of the lines, and one no line defines
TriedLabels == {<<"x">>, <<"y">>, <<"z">>}

TriedValue == <<7, 1>>

\* C16: no two entries of the table have the same label; store on a label the
\* table has changes the value of that entry only and keeps length and order,
\* store on a new label appends one entry and changes no other.
C16_TableLabelsUnique ==
    pc \in {"eval", "prompt"} =>
        /\ \A i, j \in 1..Len(variables) :
              variables[i].label = variables[j].label => i = j
        /\ \A n \in TriedLabels :
              IF \E i \in 1..Len(variables) : variables[i].label = n
              THEN /\ ValueChanged(variables, store(variables, n, TriedValue), n)
                   /\ \A i \in 1..Len(variables) :
                         variables[i].label = n
                            => store(variables, n, TriedValue)[i].value = TriedValue
              ELSE store(variables, n, TriedValue)
                      = variables \o <<[label |-> n, value |-> TriedValue]>>

\* the case of C16: the first of two entries overwritten in place
C16_Witness ==
    /\ StatementStep
    /\ StepHead = <<"assign", <<"x">>>>
    /\ step.pre.variables = <<[label |-> <<"x">>, value |-> <<1, 1>>],
                              [label |-> <<"y">>, value |-> <<1, 1>>]>>
    /\ variables = <<[label |-> <<"x">>, value |-> <<2, 1>>],
                     [label |-> <<"y">>, value |-> <<1, 1>>]>>

\* the last iteration called statement on a reference to a name of the table
ReferenceStep ==
    /\ StatementStep
    /\ StepHead[1] = "ref"
    /\ contains(step.pre.variables, StepHead[2])

\* the value of the name referred to
Referred == retrieve(step.pre.variables, StepHead[2])[1]

\* the stream statement was called on (the name is the token on top of the
\* stack), and the same stream with the literal of the value in place of the name
NameStream == peek(step.pre.ts).ts
LiteralStream ==
    [NameStream EXCEPT !.put_back[Len(NameStream.put_back)] = NumberTok(Referred)]

\* the lookahead statement peeks after the name, and the stream with the value
\* put back on top of it
Lookahead == peek(next(NameStream).ts)
Injected == put_back(Lookahead.ts, NumberTok(Referred))

C18_StackBeforeCharacters ==
    Did("next") =>
        /\ Before_ts.put_back # <<>> =>
              /\ Answer(NextReturned)
                    = Answer(TokOk(Before_ts.put_back[Len(Before_ts.put_back)], ts))
              /\ ts.put_back = SubSeq(Before_ts.put_back, 1, Len(Before_ts.put_back) - 1)
              /\ ts.pos = Before_ts.pos
              /\ ts.buffer = Before_ts.buffer
        /\ ts.pos # Before_ts.pos => Before_ts.put_back = <<>>

\* the case of C18: two different tokens on the stack, characters left to read
C18_Witness ==
    /\ Did("next")
    /\ Before_ts.put_back = <<SymbolTok("="), NumberTok(<<2, 1>>)>>
    /\ Before_ts.pos < Len(Before_ts.buffer)
    /\ ts.put_back = <<SymbolTok("=")>>

\* C19: discard_invalid only moves the cursor forward, to the first `;` at or
\* after it or to the end of the buffer, and leaves stack and buffer alone.
C19_DiscardOnlyAdvances ==
    Did("discard_invalid") =>
        /\ ts.pos >= Before_ts.pos
        /\ ts.pos = Len(ts.buffer) \/ ts.buffer[ts.pos + 1] = ";"
        /\ \A i \in (Before_ts.pos + 1)..ts.pos : ts.buffer[i] # ";"
        /\ ts.put_back = Before_ts.put_back
        /\ ts.buffer = Before_ts.buffer

\* the case of C19: the cursor moved onto a `;`, a token on the stack
C19_Witness ==
    /\ Did("discard_invalid")
    /\ ts.buffer = <<"1", ";", "x">>
    /\ Before_ts.pos = 0
    /\ ts.pos = 1
    /\ ts.put_back # <<>>

\* C20: the cursor is between 0 and the length of the buffer, and no call
\* leaves it lower than it was before the call.
C20_CursorInBoundsAndMonotonic ==
    pc = "stream" =>
        /\ 0 <= ts.pos /\ ts.pos <= Len(ts.buffer)
        /\ ts.pos >= Before_ts.pos

\* the case of C20: next reads a literal that does not start the buffer, which
\* takes its one-character step back
C20_Witness ==
    /\ Did("next")
    /\ ts.buffer = <<";", "1", "1">>
    /\ Before_ts.pos = 1 /\ Before_ts.put_back = <<>>
    /\ ts.pos = 3

\* the letters and digits of the buffers
BufAlnum == {"1", "x", "q"}

\* next reads a token from the characters, the first of them being c
ReadsFrom(c) ==
    /\ Did("next")
    /\ Before_ts.put_back = <<>>
    /\ ReadAt < Len(Before_ts.buffer)
    /\ Before_ts.buffer[ReadAt + 1] = c

\* C21: a `q` read as the first character of a token is Quit, and only the `q`
\* is consumed, whatever follows it; a token that starts with another letter is
\* the Name of all the letters and digits that follow, a `q` among them included.
C21_QuitBeforeIdentifier ==
    /\ ReadsFrom("q") =>
          /\ Answer(NextReturned) = Answer(TokOk(QuitTok, ts))
          /\ ts.pos = ReadAt + 1
    /\ ReadsFrom("x") =>
          /\ NextReturned.ok
          /\ NextReturned.tok.type = "Name"
          /\ NextReturned.tok.name = SubSeq(ts.buffer, ReadAt + 1, ts.pos)
          /\ \A i \in (ReadAt + 1)..ts.pos : ts.buffer[i] \in BufAlnum
          /\ ts.pos < Len(ts.buffer) => ts.buffer[ts.pos + 1] \notin BufAlnum

\* the case of C21: `q1` read from its start
C21_Witness ==
    /\ Did("next")
    /\ ts.buffer = <<"q", "1">>
    /\ Before_ts.pos = 0 /\ Before_ts.put_back = <<>>
    /\ ts.pos = 1

(***************************************************************************)
(* One call of evaluate, on any line of Lines and a table a session can     *)
(* have, run to its return: the loop is sequential code, so an iteration    *)
(* that can be taken is taken.                                              *)
(***************************************************************************)
Tables == {<<>>, <<[label |-> <<"x">>, value |-> <<1, 1>>]>>}

InitLine ==
    /\ \E line \in Lines, table \in Tables :
          /\ ts = TokenStream_new(line)
          /\ step = [arm |-> "Call", pre |-> evaluate_entry(line, table)]
          /\ variables = table
          /\ entry = table
          /\ last = TableEnv(table)
    /\ val = <<>>
    /\ res = <<>>
    /\ should_quit = FALSE
    /\ pc = "eval"
    /\ nlines = 1

Iteration ==
    \/ EvalReadError
    \/ EvalEndStatement
    \/ EvalQuit
    \/ EvalStatement
    \/ EvalReturn

\* weak fairness of the iterations, WF_vars(Iteration), with ENABLED written
\* out: an iteration is enabled exactly when pc = "eval", and it changes vars
\* (a returning one changes pc, any other one what is left of the line)
FairIteration == []<>(pc # "eval") \/ []<><<Iteration>>_vars

SpecLine == InitLine /\ [][Iteration]_vars /\ FairIteration

\* an iteration that does not return moves the cursor forward or leaves fewer
\* tokens on the injection stack
Consumes ==
    (pc = "eval" /\ pc' = "eval")
        => \/ ts'.pos > ts.pos
           \/ Len(ts'.put_back) < Len(ts.put_back)

\* what is left of the line: the characters after the cursor and the tokens of
\* the injection stack
Left(s) == (Len(s.buffer) - s.pos) + Len(s.put_back)

\* C22: every iteration of the loop of evaluate that does not return consumes a
\* character or takes a token off the injection stack for good, so that less of
\* the line is left after it, and every call of evaluate returns.
C22_EvaluateTerminates ==
    /\ [][Consumes /\ ((pc = "eval" /\ pc' = "eval") => Left(ts') < Left(ts))]_vars
    /\ (pc = "eval") ~> (pc = "prompt")

\* the case of C22: a failed statement leaves its lookahead on the stack, the
\* iteration after it fails on that token, and evaluate returns
C22_Witness ==
    /\ Returned
    /\ ts.buffer = S_use
    /\ entry = <<>>
    /\ Len(res) = 2
    /\ res[1].kind = "Error" /\ res[2].kind = "Error"

\* C23: when evaluate returns, the cursor is at the end of the buffer and the
\* injection stack is empty: nothing of the line is left unexamined.
C23_WholeLineProcessed ==
    Returned => ts.pos = Len(ts.buffer) /\ ts.put_back = <<>>

\* the label a `let` or an assignment of the last iteration names
StepLabel == IF StepLetName THEN StepSecond.tok.name ELSE StepHead[2]

\* C24: a call of statement that returns an error leaves the variable table
\* exactly as it was; the table changes only in a call that returns a value, and
\* then only at the label the statement assigns: that label is appended, or its
\* value replaced, and every other entry stays as it was.
C24_StatementAtomic ==
    StatementStep =>
        /\ AddedOne
        /\ Outcome.kind = "Error" => variables = step.pre.variables
        /\ variables # step.pre.variables =>
              /\ Outcome.kind = "Number"
              /\ \/ ValueChanged(step.pre.variables, variables, StepLabel)
                 \/ variables = Append(step.pre.variables,
                                       [label |-> StepLabel, value |-> Outcome.val])

\* the case of C24: an assignment to a defined x whose right-hand expression
\* fails yields an Error and leaves x as it was
C24_Witness ==
    /\ StatementStep
    /\ StepHead = <<"assign", <<"x">>>>
    /\ contains(step.pre.variables, <<"x">>)
    /\ Outcome.kind = "Error"
    /\ variables = step.pre.variables

====
